---- MODULE Spec2Model ----
(***************************************************************************)
(* A model of capa/render/proto/__init__.py: the translator from a         *)
(* pydantic JSON schema to a proto3 document.                              *)
(*                                                                         *)
(* Encoding of the Python values:                                          *)
(*   - a str that the code concatenates, compares or rewrites is a         *)
(*     sequence of one-character strings (<<"A","b">> is "Ab"); the        *)
(*     JSON-schema "type" tag, which the code only tests for equality,     *)
(*     is a TLA+ string;                                                   *)
(*   - a dict is a record holding exactly the keys that are present, so    *)
(*     `"type" in prop` is "type" \in DOMAIN prop; the key "$ref" is       *)
(*     written ref; a dict with none of the keys the code looks at holds   *)
(*     the key description only;                                           *)
(*   - a list of item descriptions (the "items" of a tuple) is the record  *)
(*     [list |-> <<...>>], so that isinstance(items, dict) is              *)
(*     "list" \notin DOMAIN items;                                         *)
(*   - a mapping whose iteration order matters ("properties") is a         *)
(*     sequence of <<raw name, description>> pairs with distinct names;    *)
(*   - a line written to `out` is a record [k, a, b, n]: the kind of the   *)
(*     line's format string and the values substituted into it.            *)
(***************************************************************************)
EXTENDS Integers, Sequences, FiniteSets, TLC

VARIABLES
    schema,          \* schema["definitions"]: key -> definition
    keys,            \* insertion order of schema["definitions"]
    classes,         \* the capa classes _find_capa_class can see: title -> parameter names
    pc,              \* position of generate_proto_from_pydantic
    names,           \* sorted(schema["definitions"].keys())
    idx,             \* position of the loop over names (1-based)
    out,             \* the StringIO, as the sequence of lines written
    deferred_types,  \* the dict of deferred wrapper types: name -> entry
    dnames,          \* the names of sorted(deferred_types.items())
    didx,            \* position of the loop over dnames (1-based)
    enumerated,      \* _enum_properties' result in the latest emit_proto_message
    err,             \* the exception that left the run, or NoErr
    result,          \* what the call returned to its caller, or NoOutput
    runs,            \* number of calls of generate_proto_from_pydantic so far
    prev             \* the previous call: its insertion order and what it returned

vars == <<schema, keys, classes, pc, names, idx, out, deferred_types, dnames,
          didx, enumerated, err, result, runs, prev>>

----------------------------------------------------------------------------
(* Bounds of the model.                                                    *)

MaxDefs == 2
MaxProps == 3
MaxAlts == 3
MaxNames == 3
MaxOrderLen == 3
MaxEnumValues == 2
MaxRuns == 2
MaxWrapProps == 2

----------------------------------------------------------------------------
(* Strings.                                                                *)

sRef == <<"#","/","d","e","f","i","n","i","t","i","o","n","s","/">>
sString == <<"s","t","r","i","n","g">>
sBool == <<"b","o","o","l">>
sInteger == <<"I","n","t","e","g","e","r">>
sNumber == <<"N","u","m","b","e","r">>
sPair == <<"P","a","i","r">>
sTuple == <<"T","u","p","l","e">>
sArray_ == <<"A","r","r","a","y","_">>
sRepeated == <<"r","e","p","e","a","t","e","d"," ">>
sUnspecified == <<"u","n","s","p","e","c","i","f","i","e","d">>

\* ord(): the code points of the characters the model uses.
Ord ==
    (" " :> 32) @@ ("#" :> 35) @@ ("&" :> 38) @@ ("-" :> 45) @@ ("/" :> 47) @@
    ("0" :> 48) @@ ("1" :> 49) @@ ("2" :> 50) @@ ("3" :> 51) @@ ("4" :> 52) @@
    ("5" :> 53) @@ ("6" :> 54) @@ ("7" :> 55) @@ ("8" :> 56) @@ ("9" :> 57) @@
    ("A" :> 65) @@ ("B" :> 66) @@ ("C" :> 67) @@ ("D" :> 68) @@ ("E" :> 69) @@
    ("F" :> 70) @@ ("G" :> 71) @@ ("H" :> 72) @@ ("I" :> 73) @@ ("J" :> 74) @@
    ("K" :> 75) @@ ("L" :> 76) @@ ("M" :> 77) @@ ("N" :> 78) @@ ("O" :> 79) @@
    ("P" :> 80) @@ ("Q" :> 81) @@ ("R" :> 82) @@ ("S" :> 83) @@ ("T" :> 84) @@
    ("U" :> 85) @@ ("V" :> 86) @@ ("W" :> 87) @@ ("X" :> 88) @@ ("Y" :> 89) @@
    ("Z" :> 90) @@ ("_" :> 95) @@ ("a" :> 97) @@ ("b" :> 98) @@ ("c" :> 99) @@
    ("d" :> 100) @@ ("e" :> 101) @@ ("f" :> 102) @@ ("g" :> 103) @@
    ("h" :> 104) @@ ("i" :> 105) @@ ("j" :> 106) @@ ("k" :> 107) @@
    ("l" :> 108) @@ ("m" :> 109) @@ ("n" :> 110) @@ ("o" :> 111) @@
    ("p" :> 112) @@ ("q" :> 113) @@ ("r" :> 114) @@ ("s" :> 115) @@
    ("t" :> 116) @@ ("u" :> 117) @@ ("v" :> 118) @@ ("w" :> 119) @@
    ("x" :> 120) @@ ("y" :> 121) @@ ("z" :> 122)

\* str.upper() on one character: ASCII lower-case letters move down by 32.
UpperChar(c) ==
    IF Ord[c] >= 97 /\ Ord[c] <= 122
    THEN CHOOSE u \in DOMAIN Ord : Ord[u] = Ord[c] - 32
    ELSE c

\* str.upper()
Upper(s) == [i \in 1..Len(s) |-> UpperChar(s[i])]

\* str.replace(old, new) for a one-character old and a new of any length
RECURSIVE Replace(_, _, _)
Replace(s, old, new) ==
    IF s = <<>> THEN <<>>
    ELSE (IF Head(s) = old THEN new ELSE <<Head(s)>>) \o Replace(Tail(s), old, new)

\* s < t for Python str: lexicographic by code point, a proper prefix first
RECURSIVE StrLess(_, _)
StrLess(s, t) ==
    IF t = <<>> THEN FALSE
    ELSE IF s = <<>> THEN TRUE
    ELSE IF Ord[Head(s)] # Ord[Head(t)] THEN Ord[Head(s)] < Ord[Head(t)]
    ELSE StrLess(Tail(s), Tail(t))

\* str.startswith
StartsWith(s, p) == Len(s) >= Len(p) /\ SubSeq(s, 1, Len(p)) = p

\* str(j) for a one-digit j
Digit(j) == <<"0","1","2","3","4","5","6","7","8","9">>[j + 1]

\* the keys iterated as the dict holds them
Unsorted(s) == s

\* insertion of one string into a sorted list of strings
RECURSIVE InsertSorted(_, _)
InsertSorted(x, s) ==
    IF s = <<>> THEN <<x>>
    ELSE IF StrLess(x, Head(s)) THEN <<x>> \o s
    ELSE <<Head(s)>> \o InsertSorted(x, Tail(s))

\* sorted() of a list of strings (stable; equal strings keep their order)
RECURSIVE sorted(_)
sorted(s) ==
    IF s = <<>> THEN <<>>
    ELSE InsertSorted(s[Len(s)], sorted(SubSeq(s, 1, Len(s) - 1)))

\* some listing of a finite set (the order of a dict's keys before sorting)
RECURSIVE SetToSeq(_)
SetToSeq(S) ==
    IF S = {} THEN <<>>
    ELSE LET x == CHOOSE y \in S : TRUE IN <<x>> \o SetToSeq(S \ {x})

----------------------------------------------------------------------------
(* Exceptions and results of the functions that can raise.                 *)

NoErr == [exc |-> "none", msg |-> "", what |-> "none", arg |-> <<>>]

\* NotImplementedError(prop): the whole raw description
NotImplementedProp(p) ==
    [exc |-> "NotImplementedError", msg |-> "", what |-> "description", arg |-> p]
\* NotImplementedError(prop["type"]): the type tag only
NotImplementedType(t) ==
    [exc |-> "NotImplementedError", msg |-> "", what |-> "type", arg |-> t]
\* NotImplementedError(name): the title looked up
NotImplementedName(n) ==
    [exc |-> "NotImplementedError", msg |-> "", what |-> "name", arg |-> n]
\* ValueError("unexpected type: %s" % prop)
UnexpectedType(p) ==
    [exc |-> "ValueError", msg |-> "unexpected type", what |-> "description", arg |-> p]
\* ValueError("title mismatch: %s" % definition["title"])
TitleMismatch(t) ==
    [exc |-> "ValueError", msg |-> "title mismatch", what |-> "title", arg |-> t]
\* ValueError("unexpected name: %s" % name)
UnexpectedName(n) ==
    [exc |-> "ValueError", msg |-> "unexpected name", what |-> "name", arg |-> n]
\* a failed assert
AssertionFailed == [exc |-> "AssertionError", msg |-> "", what |-> "none", arg |-> <<>>]

\* whether e is an exception (and not NoErr)
IsErr(e) == e.exc # "none"

Ok(v) == [ok |-> TRUE, v |-> v, err |-> NoErr]
Raise(e) == [ok |-> FALSE, v |-> <<>>, err |-> e]

----------------------------------------------------------------------------
(* TypeClassifier: the shape predicates and the derived type names.        *)

is_ref(prop) == "ref" \in DOMAIN prop

get_ref_type_name(prop) ==
    IF ~is_ref(prop) THEN Raise(AssertionFailed)
    ELSE IF ~StartsWith(prop.ref, sRef) THEN Raise(AssertionFailed)
    ELSE Ok(SubSeq(prop.ref, Len(sRef) + 1, Len(prop.ref)))

is_primitive_type(prop) == "type" \in DOMAIN prop /\ ~(prop.type = "object")

is_custom_type(prop) ==
    /\ "type" \in DOMAIN prop
    /\ prop.type = "object"
    /\ "additionalProperties" \notin DOMAIN prop

get_custom_type_name(prop) == Ok(prop.title)

is_tuple(prop) ==
    IF "type" \notin DOMAIN prop THEN FALSE
    ELSE IF prop.type # "array" THEN FALSE
    ELSE IF "maxItems" \notin DOMAIN prop \/ "minItems" \notin DOMAIN prop THEN FALSE
    ELSE IF prop.maxItems # prop.minItems THEN FALSE
    ELSE TRUE

\* the array check by the type tag alone
IsArrayOfAnySize(prop) ==
    IF "type" \notin DOMAIN prop THEN FALSE
    ELSE IF prop.type # "array" THEN FALSE
    ELSE TRUE

is_array(prop) ==
    IF "type" \notin DOMAIN prop THEN FALSE
    ELSE IF prop.type # "array" THEN FALSE
    ELSE IF "maxItems" \in DOMAIN prop /\ "minItems" \in DOMAIN prop
            /\ prop.maxItems = prop.minItems THEN FALSE
    ELSE IF "list" \in DOMAIN prop.items THEN FALSE
    ELSE TRUE

is_map(prop) ==
    /\ "type" \in DOMAIN prop
    /\ prop.type = "object"
    /\ "additionalProperties" \in DOMAIN prop

is_union(prop) == "anyOf" \in DOMAIN prop

\* a type name behind a prefix, or the exception that t carries
Prefixed(prefix, t) == IF t.ok THEN Ok(prefix \o t.v) ELSE t

RECURSIVE get_primitive_type_name(_), get_type_name(_), get_tuple_type_name(_),
          JoinTypeNames(_, _), JoinNext(_, _, _)

\* "_".join(get_type_name(item) for item in items), after the text acc;
\* the first item that raises ends the join
JoinTypeNames(items, acc) ==
    IF items = <<>> THEN Ok(acc)
    ELSE JoinNext(get_type_name(Head(items)), Tail(items), acc)

\* the join continued after one item's type name t
JoinNext(t, rest, acc) ==
    IF ~t.ok THEN t
    ELSE JoinTypeNames(rest, IF Len(acc) = 0 THEN t.v ELSE acc \o <<"_">> \o t.v)

get_tuple_type_name(prop) ==
    IF ~is_tuple(prop) THEN Raise(AssertionFailed)
    ELSE Prefixed((IF prop.maxItems = 2 THEN sPair ELSE sTuple) \o <<"_">>,
                  JoinTypeNames(prop.items.list, <<>>))

get_primitive_type_name(prop) ==
    IF ~is_primitive_type(prop) THEN Raise(AssertionFailed)
    ELSE IF prop.type = "string" THEN Ok(sString)
    ELSE IF prop.type = "boolean" THEN Ok(sBool)
    ELSE IF prop.type = "integer" THEN Ok(sInteger)
    ELSE IF prop.type = "number" THEN Ok(sNumber)
    ELSE IF is_tuple(prop) THEN get_tuple_type_name(prop)
    ELSE IF is_array(prop) THEN
        Prefixed(sRepeated,
                 IF is_primitive_type(prop.items) THEN get_primitive_type_name(prop.items)
                 ELSE IF is_ref(prop.items) THEN get_ref_type_name(prop.items)
                 ELSE IF is_custom_type(prop.items) THEN get_custom_type_name(prop.items)
                 ELSE Raise(NotImplementedProp(prop.items)))
    ELSE Raise(NotImplementedType(prop.type))

get_type_name(prop) ==
    IF is_primitive_type(prop) THEN get_primitive_type_name(prop)
    ELSE IF is_custom_type(prop) THEN get_custom_type_name(prop)
    ELSE IF is_ref(prop) THEN get_ref_type_name(prop)
    ELSE Raise(NotImplementedProp(prop))

sanitize_prop_name(name) ==
    Replace(Replace(Replace(Replace(name, "-", <<"_">>), "&", <<"a">>), "/", <<"_">>),
            " ", <<"_">>)

----------------------------------------------------------------------------
(* The text written to the StringIO, one record per writeln.               *)

Line(k, a, b, n) == [k |-> k, a |-> a, b |-> b, n |-> n]

BlankLine == Line("blank", <<>>, <<>>, 0)
CloseLine == Line("close", <<>>, <<>>, 0)

\* str(n) for n >= 0
RECURSIVE Str(_)
Str(n) == IF n < 10 THEN <<Digit(n)>> ELSE Str(n \div 10) \o <<Digit(n % 10)>>

----------------------------------------------------------------------------
(* Enum emission.                                                          *)

\* render_value of emit_proto_enum: "%s_%s" % (prefix, value.upper().replace(" ", "_"))
render_value(prefix, value) == prefix \o <<"_">> \o Replace(Upper(value), " ", <<"_">>)

\* the enumerate() index written as it is
EnumIndex(i) == i

\* the number written beside the i-th (0-based) declared value
EnumNumber(i) == i + 1

emit_proto_enum(o, enum) ==
    o \o <<Line("enum_open", enum.title, <<>>, 0),
           Line("enum_value", render_value(Upper(enum.title), sUnspecified), <<>>, 0)>>
      \o [i \in 1..Len(enum.enum) |->
             Line("enum_value", render_value(Upper(enum.title), enum.enum[i]), <<>>,
                  EnumNumber(i - 1))]
      \o <<CloseLine, BlankLine>>

----------------------------------------------------------------------------
(* PropertyOrderResolver.                                                  *)

\* a lookup that falls back to no canonical order instead of raising
FindOrNoOrder(name) ==
    IF name \in DOMAIN classes THEN Ok(classes[name]) ELSE Ok(<<>>)

\* getattr over capa.render.result_document, capa.features.freeze and
\* capa.features.freeze.features; `classes` is what the three modules hold
_find_capa_class(name) ==
    IF name \in DOMAIN classes THEN Ok(classes[name])
    ELSE Raise(NotImplementedName(name))

\* list.index(x), 0-based; -1 stands for ValueError
Index0(s, x) ==
    IF \E i \in 1..Len(s) : s[i] = x
    THEN (CHOOSE i \in 1..Len(s) : s[i] = x /\ \A j \in 1..(i - 1) : s[j] # x) - 1
    ELSE -1

\* the except of get_property_index: the fallback when index raised
IndexOr(found, fallback) == IF found >= 0 THEN found ELSE fallback

\* get_property_index of _enum_properties
get_property_index(property_order, properties, name) ==
    IndexOr(Index0(property_order, sanitize_prop_name(name)),
            Len(properties) + Index0(properties, name))

\* sorted(items, key=...): stable insertion by key
RECURSIVE InsertByKey(_, _, _, _)
InsertByKey(x, s, property_order, properties) ==
    IF s = <<>> THEN <<x>>
    ELSE IF get_property_index(property_order, properties, x[1])
              < get_property_index(property_order, properties, Head(s)[1])
         THEN <<x>> \o s
         ELSE <<Head(s)>> \o InsertByKey(x, Tail(s), property_order, properties)

RECURSIVE SortByKey(_, _, _)
SortByKey(items, property_order, properties) ==
    IF items = <<>> THEN <<>>
    ELSE InsertByKey(items[Len(items)],
                     SortByKey(SubSeq(items, 1, Len(items) - 1), property_order, properties),
                     property_order, properties)

\* list(message["properties"].keys())
PropertyNames(message) == [i \in 1..Len(message.properties) |-> message.properties[i][1]]

\* _enum_properties once the class lookup has returned or raised cls
EnumerateWith(cls, message) ==
    IF ~cls.ok THEN cls
    ELSE Ok(SortByKey(message.properties, cls.v, PropertyNames(message)))

_enum_properties(message) == EnumerateWith(_find_capa_class(message.title), message)

----------------------------------------------------------------------------
(* Message emission.                                                       *)

DeferredArrayType(name, item) == [cls |-> "array", name |-> name, item |-> item]
DeferredTupleType(name, count, items) ==
    [cls |-> "tuple", name |-> name, count |-> count, items |-> items]

\* deferred_types[name] = entry
Register(d, name, entry) == (name :> entry) @@ d

\* the local state of emit_proto_message: the text, the registry, the value
\* next(counter) yields next, the number i in hand, the exception raised
Emitting(o, d, c, e) == [out |-> o, deferred |-> d, counter |-> c, i |-> 0, err |-> e]

Raising(st, e) == [st EXCEPT !.err = e]

\* i = next(counter)
TakeNumber(st) == [st EXCEPT !.i = st.counter, !.counter = st.counter + 1]

\* out.writeln(f"  {ptype} {name} = {i};") for the type name t, or t's exception
WriteField(st, kind, name, t) ==
    IF ~t.ok THEN Raising(st, t.err)
    ELSE [st EXCEPT !.out = Append(@, Line(kind, t.v, name, st.i))]

\* lines 304, 311 and 330 left out: a tuple's field is written and its
\* wrapper is never registered
RegisterNoTuple(st, prop, t) ==
    IF IsErr(st.err) THEN st
    ELSE IF ~t.ok THEN Raising(st, t.err)
    ELSE st

\* deferred_types[name] = DeferredTupleType(name, minItems, items), for the
\* tuple's type name t
RegisterTuple(st, prop, t) ==
    IF IsErr(st.err) THEN st
    ELSE IF ~t.ok THEN Raising(st, t.err)
    ELSE [st EXCEPT !.deferred = Register(@, t.v, DeferredTupleType(t.v, prop.minItems, prop.items))]

\* lines 303-311: what a primitive property registers after its field is written
RegisterForPrimitive(st, prop) ==
    IF IsErr(st.err) THEN st
    ELSE IF is_tuple(prop) THEN RegisterTuple(st, prop, get_primitive_type_name(prop))
    ELSE IF is_array(prop) THEN
        IF is_tuple(prop.items)
        THEN RegisterTuple(st, prop.items, get_tuple_type_name(prop.items))
        ELSE st
    ELSE st

\* lines 321-337: one alternative of a union, before the counter moves on
WriteAlternative(st, of, j) ==
    IF is_ref(of) THEN WriteField(st, "oneof_field", <<"v">> \o Str(j), get_ref_type_name(of))
    ELSE IF is_primitive_type(of) THEN
        IF is_tuple(of)
        THEN RegisterTuple(WriteField(st, "oneof_field", <<"v">> \o Str(j),
                                      get_primitive_type_name(of)),
                           of, get_primitive_type_name(of))
        ELSE WriteField(st, "oneof_field", <<"v">> \o Str(j), get_primitive_type_name(of))
    ELSE Raising(st, NotImplementedProp(of))

\* line 339 left out: every alternative is written with the same number
KeepNumber(st) == st

\* line 339: the `i = next(counter)` closing each pass of the loop over anyOf
AdvanceAfterAlternative(st) == IF IsErr(st.err) THEN st ELSE TakeNumber(st)

\* the loop over prop["anyOf"] from its j-th (0-based) alternative
RECURSIVE EmitAlternatives(_, _, _)
EmitAlternatives(st, alts, j) ==
    IF alts = <<>> THEN st
    ELSE IF IsErr(st.err) THEN st
    ELSE EmitAlternatives(AdvanceAfterAlternative(WriteAlternative(st, Head(alts), j)),
                          Tail(alts), j + 1)

\* out.writeln(line) unless an exception is on its way
WriteLine(st, line) == IF IsErr(st.err) THEN st ELSE [st EXCEPT !.out = Append(@, line)]

\* the map of arrays written with a repeated value type and no wrapper
WriteRepeatedMap(st, name, item_def, t) ==
    IF ~t.ok THEN Raising(st, t.err)
    ELSE [st EXCEPT !.out = Append(@, Line("map_field", sRepeated \o t.v, name, st.i))]

\* lines 362-368: the map of arrays, for the item's type name t
WriteArrayMap(st, name, item_def, t) ==
    IF ~t.ok THEN Raising(st, t.err)
    ELSE [st EXCEPT
            !.deferred = Register(@, sArray_ \o t.v, DeferredArrayType(sArray_ \o t.v, item_def)),
            !.out = Append(@, Line("map_field", sArray_ \o t.v, name, st.i))]

\* lines 295-376: the branches of one pass, with the number taken
EmitTyped(st, name, prop) ==
    IF is_ref(prop) THEN WriteField(st, "field", name, get_ref_type_name(prop))
    ELSE IF is_primitive_type(prop) THEN
        RegisterForPrimitive(WriteField(st, "field", name, get_primitive_type_name(prop)), prop)
    ELSE IF is_custom_type(prop) THEN WriteField(st, "field", name, get_custom_type_name(prop))
    ELSE IF is_union(prop) THEN
        WriteLine(EmitAlternatives(WriteLine(st, Line("oneof_open", <<>>, name, 0)),
                                   prop.anyOf, 0),
                  Line("oneof_close", <<>>, <<>>, 0))
    ELSE IF is_map(prop) THEN
        IF is_array(prop.additionalProperties)
        THEN WriteArrayMap(st, name, prop.additionalProperties.items,
                           get_type_name(prop.additionalProperties.items))
        ELSE WriteField(st, "map_field", name, get_type_name(prop.additionalProperties))
    ELSE Raising(st, UnexpectedType(prop))

\* one pass of the loop over _enum_properties(message)
EmitProperty(st, raw_name, prop) == EmitTyped(TakeNumber(st), sanitize_prop_name(raw_name), prop)

\* the loop over the enumerated properties; an exception ends it
RECURSIVE EmitProperties(_, _)
EmitProperties(st, props) ==
    IF props = <<>> THEN st
    ELSE IF IsErr(st.err) THEN st
    ELSE EmitProperties(EmitProperty(st, Head(props)[1], Head(props)[2]), Tail(props))

\* the loop over what _enum_properties returned, or its exception
EmitEnumerated(st, ps) ==
    IF ~ps.ok THEN Raising(st, ps.err) ELSE EmitProperties(st, ps.v)

\* returns the local state at the return or at the raise
emit_proto_message(o, d, message) ==
    WriteLine(
        WriteLine(
            EmitEnumerated(
                Emitting(Append(o, Line("message_open", message.title, <<>>, 0)), d, 1, NoErr),
                _enum_properties(message)),
            CloseLine),
        BlankLine)

\* lines 392-399 alone: the dispatch without the title check
EmitDefinitionUnchecked(o, d, title, definition) ==
    IF definition.type = "string" /\ "enum" \in DOMAIN definition
    THEN Emitting(emit_proto_enum(o, definition), d, 1, NoErr)
    ELSE IF definition.type = "object"
    THEN emit_proto_message(o, d, definition)
    ELSE Emitting(o, d, 1, NotImplementedType(definition.type))

\* lines 389-399, for the definition the name points to
EmitDefinition(o, d, title, definition) ==
    IF definition.title # title
    THEN Emitting(o, d, 1, TitleMismatch(definition.title))
    ELSE IF definition.type = "string" /\ "enum" \in DOMAIN definition
    THEN Emitting(emit_proto_enum(o, definition), d, 1, NoErr)
    ELSE IF definition.type = "object"
    THEN emit_proto_message(o, d, definition)
    ELSE Emitting(o, d, 1, NotImplementedType(definition.type))

\* emit_proto_entry for "#/definitions/" + key; returns the state at the
\* return or at the raise
emit_proto_entry(o, d, sch, name) ==
    IF ~StartsWith(name, sRef) THEN Emitting(o, d, 1, UnexpectedName(name))
    ELSE EmitDefinition(o, d, SubSeq(name, Len(sRef) + 1, Len(name)),
                        sch[SubSeq(name, Len(sRef) + 1, Len(name))])

----------------------------------------------------------------------------
(* Driver: generate_proto_from_pydantic, one step per loop pass.           *)

NoOutput == <<>>

HeaderLines == <<Line("header", <<>>, <<>>, 0), Line("syntax", <<>>, <<>>, 0), BlankLine>>

HelperLines ==
    <<Line("integer_helper", sInteger, <<>>, 0), BlankLine,
      Line("number_helper", sNumber, <<>>, 0), BlankLine>>

\* the enumerate() index of a tuple's item written as its field number
TupleFieldIndex(i) == i

\* line 420: the number of the field of a tuple's i-th (0-based) item
TupleFieldNumber(i) == i + 1

\* the fields of a deferred tuple wrapper from its i-th (0-based) item
RECURSIVE EmitTupleItems(_, _, _)
EmitTupleItems(st, items, i) ==
    IF items = <<>> THEN st
    ELSE IF IsErr(st.err) THEN st
    ELSE EmitTupleItems(
            WriteField([st EXCEPT !.i = TupleFieldNumber(i)], "field", <<"v">> \o Str(i),
                       get_type_name(Head(items))),
            Tail(items), i + 1)

\* line 415, for the item's type name t
WriteArrayWrapper(st, name, t) ==
    IF ~t.ok THEN Raising(st, t.err)
    ELSE [st EXCEPT !.out = @ \o <<Line("array_wrapper", name, t.v, 1), BlankLine>>]

\* one pass of the loop over sorted(deferred_types.items())
EmitDeferred(o, d, name) ==
    IF d[name].cls = "array"
    THEN WriteArrayWrapper(Emitting(o, d, 1, NoErr), name, get_type_name(d[name].item))
    ELSE WriteLine(
            WriteLine(
                EmitTupleItems(
                    Emitting(Append(o, Line("message_open", name, <<>>, 0)), d, 1, NoErr),
                    d[name].items.list, 0),
                CloseLine),
            BlankLine)

\* lines 403-408: the header and the empty registry
Begin ==
    /\ pc = "start"
    /\ out' = HeaderLines
    /\ deferred_types' = <<>>
    /\ names' = sorted(keys)
    /\ idx' = 1
    /\ pc' = "entries"
    /\ UNCHANGED <<schema, keys, classes, dnames, didx, enumerated, err, result, runs, prev>>

\* the properties emit_proto_entry enumerated for the definition, else old
EnumeratedBy(definition, key, old) ==
    IF definition.title = key /\ definition.type = "object" /\ key \in DOMAIN classes
    THEN _enum_properties(definition).v
    ELSE old

\* the state after emit_proto_entry returned or raised with local state st
AfterEntry(st) ==
    /\ out' = st.out
    /\ deferred_types' = st.deferred
    /\ err' = st.err
    /\ pc' = IF IsErr(st.err) THEN "raised" ELSE "entries"
    /\ idx' = IF IsErr(st.err) THEN idx ELSE idx + 1

\* the pass with the exception caught and the text so far returned
EmitEntryReturningText ==
    /\ pc = "entries"
    /\ idx <= Len(names)
    /\ AfterEntry(emit_proto_entry(out, deferred_types, schema, sRef \o names[idx]))
    /\ enumerated' = EnumeratedBy(schema[names[idx]], names[idx], enumerated)
    /\ result' = IF pc' = "raised" THEN out' ELSE result
    /\ UNCHANGED <<schema, keys, classes, names, dnames, didx, runs, prev>>

\* lines 409-410: one pass of the loop over the sorted keys; an exception
\* leaves generate_proto_from_pydantic, which then returns nothing
EmitEntry ==
    /\ pc = "entries"
    /\ idx <= Len(names)
    /\ AfterEntry(emit_proto_entry(out, deferred_types, schema, sRef \o names[idx]))
    /\ enumerated' = EnumeratedBy(schema[names[idx]], names[idx], enumerated)
    /\ UNCHANGED <<schema, keys, classes, names, dnames, didx, result, runs, prev>>

\* s[::-1]
Reverse(s) == [i \in 1..Len(s) |-> s[Len(s) + 1 - i]]

\* the registry drained in descending order of name
EndEntriesReversed ==
    /\ pc = "entries"
    /\ idx > Len(names)
    /\ dnames' = Reverse(sorted(SetToSeq(DOMAIN deferred_types)))
    /\ didx' = 1
    /\ pc' = "drain"
    /\ UNCHANGED <<schema, keys, classes, names, idx, out, deferred_types, enumerated,
                   err, result, runs, prev>>

\* line 412: the loop over the keys is over; the registry is sorted
EndEntries ==
    /\ pc = "entries"
    /\ idx > Len(names)
    /\ dnames' = sorted(SetToSeq(DOMAIN deferred_types))
    /\ didx' = 1
    /\ pc' = "drain"
    /\ UNCHANGED <<schema, keys, classes, names, idx, out, deferred_types, enumerated,
                   err, result, runs, prev>>

\* the state after one deferred type was written, or its writing raised
AfterDeferred(st) ==
    /\ out' = st.out
    /\ err' = st.err
    /\ pc' = IF IsErr(st.err) THEN "raised" ELSE "drain"
    /\ didx' = IF IsErr(st.err) THEN didx ELSE didx + 1

\* lines 412-421: one pass of the loop over the sorted registry, or its end
Drain ==
    /\ pc = "drain"
    /\ IF didx <= Len(dnames)
       THEN AfterDeferred(EmitDeferred(out, deferred_types, dnames[didx]))
       ELSE /\ pc' = "helpers"
            /\ UNCHANGED <<out, err, didx>>
    /\ UNCHANGED <<schema, keys, classes, names, idx, deferred_types, dnames, enumerated,
                   result, runs, prev>>

\* lines 423-427: the two helper messages and the return of the text
Finish ==
    /\ pc = "helpers"
    /\ out' = out \o HelperLines
    /\ result' = out \o HelperLines
    /\ pc' = "done"
    /\ UNCHANGED <<schema, keys, classes, names, idx, deferred_types, dnames, didx,
                   enumerated, err, runs, prev>>

\* the orderings of a list of distinct elements
Orderings(s) ==
    {t \in [1..Len(s) -> {s[i] : i \in 1..Len(s)}] :
        \A i, j \in 1..Len(s) : i # j => t[i] # t[j]}

\* an independent further call on the same schema, its definitions
\* presented in any insertion order
CallAgain ==
    /\ pc \in {"done", "raised"}
    /\ runs < MaxRuns
    /\ keys' \in Orderings(keys)
    /\ prev' = [ok |-> pc = "done", text |-> result, keys |-> keys]
    /\ runs' = runs + 1
    /\ pc' = "start"
    /\ names' = <<>>
    /\ idx' = 1
    /\ out' = <<>>
    /\ deferred_types' = <<>>
    /\ dnames' = <<>>
    /\ didx' = 1
    /\ enumerated' = <<>>
    /\ err' = NoErr
    /\ result' = NoOutput
    /\ UNCHANGED <<schema, classes>>

Next == Begin \/ EmitEntry \/ EndEntries \/ Drain \/ Finish \/ CallAgain

\* the state at the first call, for a set of inputs [schema, classes]
InitWith(inputs) ==
    /\ \E inp \in inputs :
          /\ schema = inp.schema
          /\ classes = inp.classes
          /\ keys \in Orderings(SetToSeq(DOMAIN inp.schema))
    /\ pc = "start"
    /\ names = <<>>
    /\ idx = 1
    /\ out = <<>>
    /\ deferred_types = <<>>
    /\ dnames = <<>>
    /\ didx = 1
    /\ enumerated = <<>>
    /\ err = NoErr
    /\ result = NoOutput
    /\ runs = 1
    /\ prev = [ok |-> FALSE, text |-> NoOutput, keys |-> <<>>]

----------------------------------------------------------------------------
(* Inputs.  Every array description has "items", and a fixed-size array    *)
(* lists its items, as pydantic's schema export writes them.               *)

Ref(title) == [ref |-> sRef \o title]
StringProp == [type |-> "string"]
IntegerProp == [type |-> "integer"]
NullProp == [type |-> "null"]
EmptyProp == [description |-> <<"x">>]
PairProp == [type |-> "array", minItems |-> 2, maxItems |-> 2,
             items |-> [list |-> <<Ref(<<"A">>), IntegerProp>>]]
ArrayProp(item) == [type |-> "array", items |-> item]
MapProp(value) == [type |-> "object", additionalProperties |-> value]
UnionProp(alts) == [anyOf |-> alts]

EnumDef(title, values) == [title |-> title, type |-> "string", enum |-> values]
ObjectDef(title, props) == [title |-> title, type |-> "object", properties |-> props]
OtherDef(title, type) == [title |-> title, type |-> type]

\* the sequences of length 0..n over S
SeqsUpTo(S, n) == UNION {[1..k -> S] : k \in 0..n}

\* those without a repeated element
DistinctSeqsUpTo(S, n) ==
    {s \in SeqsUpTo(S, n) : \A i, j \in 1..Len(s) : i # j => s[i] # s[j]}

\* the schemas with 1..n definitions taken from defs(key) for keys in titles
SchemasOver(titles, defs(_), n) ==
    UNION {[ks -> UNION {defs(k) : k \in ks}] : ks \in {x \in SUBSET titles : x # {} /\ Cardinality(x) <= n}}

(* Spec: several definitions of every kind, with few properties each.      *)

TitlePool == {<<"A">>, <<"A","b">>, <<"B">>}

DriverProps ==
    { <<>>,
      << <<<<"r">>, Ref(<<"B">>)>> >>,
      << <<<<"r">>, Ref(<<"A","b">>)>>, <<<<"n">>, NullProp>> >>,
      << <<<<"e">>, EmptyProp>> >>,
      << <<<<"m">>, MapProp(ArrayProp(Ref(<<"A">>)))>>, <<<<"t">>, PairProp>> >> }

DriverDefs(key) ==
    {EnumDef(key, << <<"x">> >>), EnumDef(<<"X">>, << <<"x">> >>), OtherDef(key, "integer")}
    \cup {ObjectDef(key, ps) : ps \in DriverProps}

DriverClasses ==
    {[t \in ts |-> << <<"n">>, <<"r">> >>] : ts \in {TitlePool, TitlePool \ {<<"B">>}}}

DriverInputs ==
    {[schema |-> sch, classes |-> c] :
        sch \in {f \in SchemasOver(TitlePool, DriverDefs, MaxDefs) :
                    \A k \in DOMAIN f : f[k] \in DriverDefs(k)},
        c \in DriverClasses}

Init == InitWith(DriverInputs)

Spec == Init /\ [][Next]_vars

(* SpecMsg: one message whose properties take every shape, unions of     *)
(* 1..MaxAlts alternatives among them.                                     *)

MsgTitle == <<"M">>

\* the raw name of the i-th property
PropName(i) == <<<<"a">>, <<"b">>, <<"c">>, <<"d">>, <<"e">>, <<"f">>>>[i]

\* the j-th alternative of a union
Alternative(j) == <<Ref(<<"A">>), PairProp, StringProp, IntegerProp>>[((j - 1) % 4) + 1]

MsgShapes ==
    {StringProp, MapProp(ArrayProp(Ref(<<"A">>)))}
    \cup {UnionProp([j \in 1..k |-> Alternative(j)]) : k \in 1..MaxAlts}

MsgInputs ==
    {[schema |-> (MsgTitle :> ObjectDef(MsgTitle, [i \in 1..Len(shapes) |-> <<PropName(i), shapes[i]>>])),
      classes |-> (MsgTitle :> <<>>)] :
        shapes \in SeqsUpTo(MsgShapes, MaxProps)}

InitMsg == InitWith(MsgInputs)

SpecMsg == InitMsg /\ [][Next]_vars

(* SpecOrder: one message of string properties under every raw name, and   *)
(* every canonical order.                                                  *)

RawNames == {<<"a">>, <<"b">>, <<"a","-","b">>, <<"x">>}
CanonicalNames == {<<"a">>, <<"b">>, <<"a","_","b">>, <<"c">>}

OrderInputs ==
    {[schema |-> (MsgTitle :> ObjectDef(MsgTitle, [i \in 1..Len(raw) |-> <<raw[i], StringProp>>])),
      classes |-> (MsgTitle :> order)] :
        raw \in DistinctSeqsUpTo(RawNames, MaxNames),
        order \in DistinctSeqsUpTo(CanonicalNames, MaxOrderLen)}

InitOrder == InitWith(OrderInputs)

SpecOrder == InitOrder /\ [][Next]_vars

(* SpecEnum: one enum under every list of declared values.                 *)

EnumTitles == {<<"A">>, <<"A","b">>}
EnumValues ==
    {<<"x">>, <<"a"," ","b">>, sUnspecified,
     <<"U","n","s","p","e","c","i","f","i","e","d">>}

EnumInputs ==
    {[schema |-> (t :> EnumDef(t, values)), classes |-> <<>>] :
        t \in EnumTitles, values \in DistinctSeqsUpTo(EnumValues, MaxEnumValues)}

InitEnum == InitWith(EnumInputs)

SpecEnum == InitEnum /\ [][Next]_vars

(* SpecDeferred: an enum A and one object whose properties take the shapes *)
(* that need, or name, a deferred wrapper type.  Every $ref points to one  *)
(* of the two definitions.  The object's title holds an underscore, or it  *)
(* is the name of a helper message and the object holds the plainer        *)
(* shapes only.                                                            *)

\* a fixed-size array over the listed item descriptions
TupleOf(items) ==
    [type |-> "array", minItems |-> Len(items), maxItems |-> Len(items),
     items |-> [list |-> items]]

EnumTitle == <<"A">>
WrapTitles == {<<"A","_","A">>, sInteger}

\* the property shapes of the object titled as a helper message
PlainShapes == {StringProp, PairProp, MapProp(ArrayProp(Ref(EnumTitle)))}

\* the property shapes of the object titled t
WrapShapes(t) ==
    IF t = sInteger THEN PlainShapes ELSE
    { StringProp,
      PairProp,
      TupleOf(<<Ref(t), Ref(EnumTitle)>>),
      TupleOf(<<Ref(EnumTitle), Ref(t)>>),
      TupleOf(<<StringProp, Ref(EnumTitle), StringProp>>),
      TupleOf(<<PairProp, StringProp>>),
      ArrayProp(StringProp),
      ArrayProp(PairProp),
      ArrayProp(ArrayProp(StringProp)),
      ArrayProp(MapProp(StringProp)),
      MapProp(ArrayProp(Ref(EnumTitle))),
      MapProp(ArrayProp(PairProp)),
      MapProp(PairProp),
      UnionProp(<<PairProp, ArrayProp(TupleOf(<<StringProp, StringProp>>))>>) }

DeferredInputs ==
    UNION {
        {[schema |-> (EnumTitle :> EnumDef(EnumTitle, << <<"x">> >>))
                     @@ (t :> ObjectDef(t, [i \in 1..Len(shapes) |-> <<PropName(i), shapes[i]>>])),
          classes |-> (t :> <<>>)] :
            shapes \in SeqsUpTo(WrapShapes(t), MaxWrapProps)} :
        t \in WrapTitles}

InitDeferred == InitWith(DeferredInputs)

SpecDeferred == InitDeferred /\ [][Next]_vars

----------------------------------------------------------------------------
(* Reading the text back.                                                  *)

IsFieldLine(l) == l.k \in {"field", "oneof_field", "map_field"}
IsOpenLine(l) == l.k \in {"enum_open", "message_open"}
IsEnumValue(l) == l.k = "enum_value"

\* the index after the last line of the block opened at line i
BlockEnd(o, i) ==
    IF \E j \in (i + 1)..Len(o) : o[j].k = "close"
    THEN CHOOSE j \in (i + 1)..Len(o) :
            o[j].k = "close" /\ \A m \in (i + 1)..(j - 1) : o[m].k # "close"
    ELSE Len(o) + 1

BlockLines(o, i) == SubSeq(o, i + 1, BlockEnd(o, i) - 1)

\* the field numbers of the message opened at line i, in the order written
FieldNumbers(o, i) ==
    [m \in 1..Len(SelectSeq(BlockLines(o, i), IsFieldLine)) |->
        SelectSeq(BlockLines(o, i), IsFieldLine)[m].n]

MessageStarts(o) == {i \in 1..Len(o) : o[i].k = "message_open"}
EnumStarts(o) == {i \in 1..Len(o) : o[i].k = "enum_open"}

\* whether the definition under key has been through emit_proto_entry
Processed(p) == p < idx \/ (p = idx /\ pc = "raised")

\* the run is over
Over == pc \in {"done", "raised"}

----------------------------------------------------------------------------
(* Field numbering (SpecMsg).                                              *)

\* C1 (as claimed): in every emitted message the field numbers are 1, 2, 3,
\* ... with no gap, so that the property after a union gets the number
\* after the union's last alternative.
C1_NumbersContiguousFromOne ==
    \A i \in MessageStarts(out) :
        \A m \in 1..Len(FieldNumbers(out, i)) : FieldNumbers(out, i)[m] = m

\* C2: within one emitted message the field numbers, over plain fields, map
\* fields and union alternatives alike, strictly increase in the order they
\* are written, so none is used twice.
C2_NumbersStrictlyIncrease ==
    \A i \in MessageStarts(out) :
        \A m \in 1..(Len(FieldNumbers(out, i)) - 1) :
            FieldNumbers(out, i)[m] < FieldNumbers(out, i)[m + 1]

\* a finished message holding a union of two or more alternatives, plain
\* fields and a field after the union
C2_Witness ==
    /\ pc = "done"
    /\ \E i \in MessageStarts(out) :
          /\ Len(FieldNumbers(out, i)) >= 4
          /\ \E a, b, c \in 1..Len(BlockLines(out, i)) :
                /\ a < b /\ b < c
                /\ BlockLines(out, i)[a].k = "oneof_field"
                /\ BlockLines(out, i)[b].k = "oneof_field"
                /\ BlockLines(out, i)[c].k \in {"field", "map_field"}

----------------------------------------------------------------------------
(* Property order.                                                         *)

\* the definition with an object's shape whose title has no capa class
ObjectWithoutClass(p) ==
    /\ schema[names[p]].title = names[p]
    /\ schema[names[p]].type = "object"
    /\ names[p] \notin DOMAIN classes

OnlyDef == schema[keys[1]]
Resolved(raw) == Index0(classes[OnlyDef.title], sanitize_prop_name(raw)) >= 0

\* C4 (as claimed, SpecOrder): _enum_properties returns every resolved
\* property before every unresolved one, the resolved ones in canonical
\* order and the unresolved ones in their schema order, also when the
\* canonical order is longer than the property list.
C4_ResolvedBeforeUnresolved ==
    (Len(keys) = 1 /\ pc = "done") =>
        \A i, j \in 1..Len(enumerated) :
            i < j =>
                /\ ~(~Resolved(enumerated[i][1]) /\ Resolved(enumerated[j][1]))
                /\ (Resolved(enumerated[i][1]) /\ Resolved(enumerated[j][1])) =>
                       Index0(classes[OnlyDef.title], sanitize_prop_name(enumerated[i][1]))
                         <= Index0(classes[OnlyDef.title], sanitize_prop_name(enumerated[j][1]))
                /\ (~Resolved(enumerated[i][1]) /\ ~Resolved(enumerated[j][1])) =>
                       Index0(PropertyNames(OnlyDef), enumerated[i][1])
                         < Index0(PropertyNames(OnlyDef), enumerated[j][1])

----------------------------------------------------------------------------
(* The run as a whole (Spec).                                              *)

\* the titles of the first n blocks of a text
OpenTitles(o, n) == [p \in 1..n |-> SelectSeq(o, IsOpenLine)[p].a]

\* C5: a further call on the same schema, its definitions inserted in any
\* other order, returns the same text, and the primary definitions of a
\* returned text stand in ascending order of title.
C5_SameTextInAnyOrder ==
    /\ (pc = "done" /\ runs > 1 /\ prev.ok) => result = prev.text
    /\ pc = "done" =>
          /\ {OpenTitles(result, Len(keys))[p] : p \in 1..Len(keys)} = DOMAIN schema
          /\ \A p \in 1..(Len(keys) - 1) :
                StrLess(OpenTitles(result, Len(keys))[p], OpenTitles(result, Len(keys))[p + 1])

\* two calls returned, the second on another insertion order of two or
\* more definitions
C5_Witness ==
    /\ pc = "done"
    /\ runs > 1
    /\ prev.ok
    /\ Len(keys) >= 2
    /\ prev.keys # keys

\* C6: when an exception leaves the run, whatever the definition it was
\* raised at, the call has returned nothing: text written for earlier
\* definitions does not reach the caller.
C6_NothingReturnedOnError == pc = "raised" => result = NoOutput

\* an exception after an earlier definition's text was written
C6_Witness ==
    /\ pc = "raised"
    /\ idx > 1
    /\ Len(out) > Len(HeaderLines) + 1
    /\ result = NoOutput

\* a description with no $ref, no anyOf and no type the code knows
Unclassifiable(prop) ==
    /\ ~is_ref(prop)
    /\ ~is_union(prop)
    /\ IF "type" \in DOMAIN prop
       THEN prop.type \notin {"string", "boolean", "integer", "number", "array", "object"}
       ELSE TRUE

\* a definition that is neither a StringEnum nor an Object
UnsupportedKind(d) ==
    ~(d.type = "object" \/ (d.type = "string" /\ "enum" \in DOMAIN d))

\* the exception reports a shape the translator does not support
IsUnsupportedShape(e) ==
    \/ (e.exc = "NotImplementedError" /\ e.what \in {"description", "type"})
    \/ (e.exc = "ValueError" /\ e.msg = "unexpected type")

\* C7 (as claimed): a schema holding an unclassifiable property or a
\* definition of unsupported kind never yields a text, and an
\* unsupported-shape exception carries the whole offending description,
\* not its type tag alone.
C7_ErrorCarriesDescription ==
    /\ pc = "done" =>
          \A k \in DOMAIN schema :
              /\ ~UnsupportedKind(schema[k])
              /\ schema[k].type = "object" =>
                    \A i \in 1..Len(schema[k].properties) :
                        ~Unclassifiable(schema[k].properties[i][2])
    /\ (pc = "raised" /\ IsUnsupportedShape(err)) => err.what = "description"

\* the titles the $ref pointers of a description point to
RECURSIVE RefsIn(_)
RefsIn(prop) ==
    (IF is_ref(prop) /\ StartsWith(prop.ref, sRef)
     THEN {SubSeq(prop.ref, Len(sRef) + 1, Len(prop.ref))} ELSE {})
    \cup (IF "anyOf" \in DOMAIN prop
          THEN UNION {RefsIn(prop.anyOf[i]) : i \in 1..Len(prop.anyOf)} ELSE {})
    \cup (IF "additionalProperties" \in DOMAIN prop
          THEN RefsIn(prop.additionalProperties) ELSE {})
    \cup (IF "items" \in DOMAIN prop
          THEN IF "list" \in DOMAIN prop.items
               THEN UNION {RefsIn(prop.items.list[i]) : i \in 1..Len(prop.items.list)}
               ELSE RefsIn(prop.items)
          ELSE {})

\* the referenced definitions whose stored title is not the name referenced
MismatchedTargets ==
    {t \in UNION {UNION {RefsIn(schema[k].properties[i][2]) :
                            i \in 1..Len(schema[k].properties)} :
                     k \in {x \in DOMAIN schema : "properties" \in DOMAIN schema[x]}} :
        t \in DOMAIN schema /\ schema[t].title # t}

\* C8 (as claimed): when some $ref points to a definition whose stored
\* title differs from the name referenced, the run fails with the
\* title-mismatch error.
C8_MismatchedRefRaisesMismatch ==
    (Over /\ MismatchedTargets # {}) =>
        (pc = "raised" /\ err.msg = "title mismatch")

\* C8 (amended): when some $ref points to a definition of the schema whose
\* stored title differs from the name referenced, the run fails and returns
\* nothing; the exception is the title-mismatch error unless another
\* exception was raised at a definition sorted before every such target.
C8_MismatchedRefFails ==
    (Over /\ MismatchedTargets # {}) =>
        /\ pc = "raised"
        /\ result = NoOutput
        /\ idx <= Len(names)
        /\ \/ err.msg = "title mismatch"
           \/ \A t \in MismatchedTargets : StrLess(names[idx], t)

\* the run ended with the title-mismatch error at a referenced definition,
\* after an earlier definition was emitted
C8_Witness ==
    /\ pc = "raised"
    /\ idx > 1
    /\ idx <= Len(names)
    /\ names[idx] \in MismatchedTargets
    /\ err.msg = "title mismatch"

----------------------------------------------------------------------------
(* Enums (SpecEnum).                                                       *)

EnumValueLines(o, i) == SelectSeq(BlockLines(o, i), IsEnumValue)

\* C9: an enum of N declared values is written with N + 1 values: the
\* unspecified sentinel numbered 0, then the i-th declared value numbered i,
\* in declared order.
C9_EnumHasSentinelThenValues ==
    \A i \in EnumStarts(out) :
        /\ Len(EnumValueLines(out, i)) = Len(schema[out[i].a].enum) + 1
        /\ EnumValueLines(out, i)[1].n = 0
        /\ EnumValueLines(out, i)[1].a
             = Upper(out[i].a) \o <<"_","U","N","S","P","E","C","I","F","I","E","D">>
        /\ \A m \in 1..Len(schema[out[i].a].enum) :
              /\ EnumValueLines(out, i)[m + 1].n = m
              /\ EnumValueLines(out, i)[m + 1].a
                   = Upper(out[i].a) \o <<"_">>
                       \o Replace(Upper(schema[out[i].a].enum[m]), " ", <<"_">>)

\* a returned text with an enum of two or more declared values
C9_Witness ==
    /\ pc = "done"
    /\ \E i \in EnumStarts(out) : Len(schema[out[i].a].enum) >= 2

\* C10 (as claimed): no declared value is written under the name of the
\* value-0 sentinel, whatever the declared strings are.
C10_SentinelNameIsDistinct ==
    \A i \in EnumStarts(out) :
        \A m \in 2..Len(EnumValueLines(out, i)) :
            EnumValueLines(out, i)[m].a # EnumValueLines(out, i)[1].a

----------------------------------------------------------------------------
(* Deferred wrapper types (SpecDeferred).                                  *)

\* the keys of the definitions that hold properties
Objects == {k \in DOMAIN schema : "properties" \in DOMAIN schema[k]}

\* the properties of the schema, each as <<key of its definition, position>>
Sites == {s \in Objects \X (1..MaxWrapProps + 1) : s[2] <= Len(schema[s[1]].properties)}

RawNameAt(s) == schema[s[1]].properties[s[2]][1]
PropAt(s) == schema[s[1]].properties[s[2]][2]

\* the type names of a tuple's items, in order
ElementTypeNames(prop) ==
    [i \in 1..Len(prop.items.list) |-> get_type_name(prop.items.list[i]).v]

\* the line opening the primary definition titled k
PrimaryOpen(o, k) ==
    CHOOSE i \in 1..Len(o) :
        /\ IsOpenLine(o[i]) /\ o[i].a = k
        /\ \A j \in 1..(i - 1) : ~(IsOpenLine(o[j]) /\ o[j].a = k)

\* the last line of the primary definitions: the deferred section follows it
PrimaryEnd(o) == BlockEnd(o, PrimaryOpen(o, names[Len(names)]))

\* the lines written for the property at site s: its field or its map field
PropertyLines(o, s) ==
    SelectSeq(BlockLines(o, PrimaryOpen(o, s[1])),
              LAMBDA l : l.k \in {"field", "map_field"}
                         /\ l.b = sanitize_prop_name(RawNameAt(s)))

\* the lines of the deferred section that define a wrapper named n
WrapperBlocks(o, n) ==
    {i \in (PrimaryEnd(o) + 1)..Len(o) :
        o[i].k \in {"message_open", "array_wrapper"} /\ o[i].a = n}

\* the properties that are fixed-size arrays
TupleSites == {s \in Sites : is_tuple(PropAt(s))}

MapArraySites ==
    {s \in Sites : is_map(PropAt(s)) /\ is_array(PropAt(s).additionalProperties)}

\* the type name of the items of the array a map holds
ItemTypeName(s) == get_type_name(PropAt(s).additionalProperties.items).v

\* the position of the line of site s among the numbered lines of its message
NumberedPosition(o, s) ==
    CHOOSE m \in 1..Len(SelectSeq(BlockLines(o, PrimaryOpen(o, s[1])), IsFieldLine)) :
        SelectSeq(BlockLines(o, PrimaryOpen(o, s[1])), IsFieldLine)[m]
            = PropertyLines(o, s)[1]

\* C12: a map property whose value is an array of items of type T is
\* written as one map field of value type Array_T, never a repeated type,
\* and takes one field number; the deferred section holds exactly one
\* message Array_T, with the single field `repeated T values = 1`, however
\* many map properties use it.
C12_MapOfArrayUsesOneWrapper ==
    pc = "done" =>
        \A s \in MapArraySites :
            /\ Len(PropertyLines(result, s)) = 1
            /\ PropertyLines(result, s)[1].k = "map_field"
            /\ PropertyLines(result, s)[1].a = sArray_ \o ItemTypeName(s)
            /\ ~StartsWith(PropertyLines(result, s)[1].a, sRepeated)
            /\ LET numbers == FieldNumbers(result, PrimaryOpen(result, s[1]))
                   m == NumberedPosition(result, s)
               IN  m < Len(numbers) => numbers[m + 1] = numbers[m] + 1
            /\ Cardinality(WrapperBlocks(result, sArray_ \o ItemTypeName(s))) = 1
            /\ \A i \in WrapperBlocks(result, sArray_ \o ItemTypeName(s)) :
                  result[i] = Line("array_wrapper", sArray_ \o ItemTypeName(s),
                                   ItemTypeName(s), 1)

\* a returned text for two map properties over arrays of the same item type
C12_Witness ==
    /\ pc = "done"
    /\ \E s1, s2 \in MapArraySites :
          /\ s1[1] = s2[1]
          /\ s1[2] < s2[2]
          /\ ItemTypeName(s1) = ItemTypeName(s2)

\* the properties that are variable-size arrays
ArraySites == {s \in Sites : is_array(PropAt(s))}

\* a description that classifies as Reference, PrimitiveScalar or CustomObject
IsScalarItem(prop) ==
    \/ is_ref(prop)
    \/ is_custom_type(prop)
    \/ ("type" \in DOMAIN prop /\ prop.type \in {"string", "boolean", "integer", "number"})

\* C13 (as claimed): no text is returned for a schema holding an array
\* property whose items are themselves an array or a map, and a repeated
\* field is written only for items that classify as Reference,
\* PrimitiveScalar or CustomObject.
C13_NestedArrayItemsRejected ==
    pc = "done" =>
        \A s \in ArraySites :
            /\ ~is_array(PropAt(s).items)
            /\ ~is_map(PropAt(s).items)
            /\ StartsWith(PropertyLines(result, s)[1].a, sRepeated)
                  => IsScalarItem(PropAt(s).items)

\* every description found in a property description, itself included
RECURSIVE SubDescriptions(_)
SubDescriptions(prop) ==
    {prop}
    \cup (IF "anyOf" \in DOMAIN prop
          THEN UNION {SubDescriptions(prop.anyOf[i]) : i \in 1..Len(prop.anyOf)} ELSE {})
    \cup (IF "additionalProperties" \in DOMAIN prop
          THEN SubDescriptions(prop.additionalProperties) ELSE {})
    \cup (IF "items" \in DOMAIN prop
          THEN IF "list" \in DOMAIN prop.items
               THEN UNION {SubDescriptions(prop.items.list[i]) :
                              i \in 1..Len(prop.items.list)}
               ELSE SubDescriptions(prop.items)
          ELSE {})

\* an array description whose declared minimum and maximum sizes are equal
IsFixedSizeArray(prop) ==
    /\ "type" \in DOMAIN prop
    /\ prop.type = "array"
    /\ "minItems" \in DOMAIN prop
    /\ "maxItems" \in DOMAIN prop
    /\ prop.minItems = prop.maxItems

\* C14: a fixed-size array description is a tuple and never an array:
\* is_tuple and is_array are never both true, every function that derives a
\* type name gives a fixed-size array its wrapper's name and never a
\* repeated type, and a fixed-size array property is written as one field
\* of the wrapper type.
C14_FixedSizeArrayIsTuple ==
    /\ \A s \in Sites :
          \A d \in SubDescriptions(PropAt(s)) :
              /\ ~(is_tuple(d) /\ is_array(d))
              /\ IsFixedSizeArray(d) => (is_tuple(d) /\ ~is_array(d))
              /\ is_tuple(d) =>
                    /\ get_primitive_type_name(d) = get_tuple_type_name(d)
                    /\ get_type_name(d) = get_tuple_type_name(d)
                    /\ get_tuple_type_name(d).ok
                    /\ ~StartsWith(get_type_name(d).v, sRepeated)
    /\ pc = "done" =>
          \A s \in TupleSites :
              /\ Len(PropertyLines(result, s)) = 1
              /\ PropertyLines(result, s)[1].k = "field"
              /\ PropertyLines(result, s)[1].a = get_tuple_type_name(PropAt(s)).v
              /\ ~StartsWith(PropertyLines(result, s)[1].a, sRepeated)

\* a returned text for a fixed-size array and a variable-size array
C14_Witness ==
    /\ pc = "done"
    /\ TupleSites # {}
    /\ ArraySites # {}
    /\ \E s \in ArraySites : StartsWith(PropertyLines(result, s)[1].a, sRepeated)

\* the lines that open or hold a top-level enum or message
IsTopLine(l) ==
    l.k \in {"enum_open", "message_open", "array_wrapper", "integer_helper", "number_helper"}

\* the names of the top-level enums and messages of a text, in order
TopNames(o) == [m \in 1..Len(SelectSeq(o, IsTopLine)) |-> SelectSeq(o, IsTopLine)[m].a]

\* a list of strings in strictly ascending order
Ascending(s) == \A p \in 1..(Len(s) - 1) : StrLess(s[p], s[p + 1])

\* the phases as the text shows them at every point of a run
PhasesInText ==
    /\ pc = "entries" => TopNames(out) = SubSeq(names, 1, idx - 1)
    /\ pc = "drain" => TopNames(out) = names \o SubSeq(dnames, 1, didx - 1)
    /\ pc \in {"drain", "helpers", "done"} =>
          /\ Ascending(dnames)
          /\ {dnames[p] : p \in 1..Len(dnames)} = DOMAIN deferred_types
    /\ pc = "done" =>
          /\ SubSeq(result, 1, Len(HeaderLines)) = HeaderLines
          /\ TopNames(result) = names \o dnames \o <<sInteger, sNumber>>
          /\ Ascending(names)
          /\ {names[p] : p \in 1..Len(names)} = DOMAIN schema
          /\ SubSeq(result, Len(result) - Len(HelperLines) + 1, Len(result)) = HelperLines

\* C15: a returned text is the header and syntax line, then every primary
\* definition in ascending order of title, then every deferred wrapper in
\* ascending order of name, then the helper messages Integer and Number;
\* no wrapper is written before the last primary definition, and the
\* registry does not change once its draining has started.
C15_PhasesInOrder ==
    /\ []PhasesInText
    /\ [][(pc \in {"drain", "helpers"}) => (deferred_types' = deferred_types)]_vars

\* a returned text with two primary definitions and two or more wrappers
C15_Witness ==
    /\ pc = "done"
    /\ Len(names) >= 2
    /\ Len(dnames) >= 2

\* what emit_proto_message registers for the property at site s alone:
\* the registry after one pass of its loop, started from an empty registry
RegistrationsOf(s) ==
    EmitProperty(Emitting(<<>>, <<>>, 1, NoErr), RawNameAt(s), PropAt(s)).deferred

\* the shape of a registry entry: its wrapper kind and the type names of
\* its elements, in order
Shape(e) ==
    IF e.cls = "array"
    THEN [cls |-> "array", types |-> <<get_type_name(e.item).v>>]
    ELSE [cls |-> "tuple", types |-> ElementTypeNames(e)]

\* C16 (as claimed): every registration made during a run under a name has
\* the shape of the entry that the registry finally holds under that name,
\* so that two registrations of one name never differ in wrapper kind or in
\* element type names, also when titles contain underscores.
C16_SameNameSameShape ==
    pc = "done" =>
        \A s \in Sites :
            \A n \in DOMAIN RegistrationsOf(s) :
                Shape(deferred_types[n]) = Shape(RegistrationsOf(s)[n])

\* the names registered for tuple wrappers
TupleWrappers == {n \in DOMAIN deferred_types : deferred_types[n].cls = "tuple"}

\* C17: for each registered tuple wrapper of declared size k the deferred
\* section holds one message of exactly k fields, named v0..v(k-1) and
\* numbered 1..k in element order, each of its element's type name.
C17_TupleWrapperFields ==
    pc = "done" =>
        \A n \in TupleWrappers :
            /\ Cardinality(WrapperBlocks(result, n)) = 1
            /\ \A i \in WrapperBlocks(result, n) :
                  /\ result[i].k = "message_open"
                  /\ BlockLines(result, i)
                       = [m \in 1..deferred_types[n].count |->
                            Line("field",
                                 get_type_name(deferred_types[n].items.list[m]).v,
                                 <<"v">> \o Str(m - 1), m)]

\* a returned text with a wrapper of two elements and one of three
C17_Witness ==
    /\ pc = "done"
    /\ \E n1, n2 \in TupleWrappers :
          /\ deferred_types[n1].count = 2
          /\ deferred_types[n2].count = 3

\* C18 (as claimed): in a returned text every wrapper type named by a
\* field, a union alternative, a map value, a repeated item or a wrapper
\* member is defined in the deferred section: the wrapper of every
\* fixed-size array found anywhere in a property, and the Array_ wrapper of
\* every map of arrays.
C18_EveryWrapperIsDefined ==
    pc = "done" =>
        \A s \in Sites :
            \A d \in SubDescriptions(PropAt(s)) :
                /\ is_tuple(d) => WrapperBlocks(result, get_tuple_type_name(d).v) # {}
                /\ (is_map(d) /\ is_array(d.additionalProperties)) =>
                      WrapperBlocks(result,
                                    sArray_ \o get_type_name(d.additionalProperties.items).v) # {}

\* C19 (as claimed): in a returned text the names of the top-level enums
\* and messages are pairwise distinct: primary titles, wrapper names and
\* the helper names Integer and Number.
C19_TopLevelNamesDistinct ==
    pc = "done" =>
        \A p, q \in 1..Len(TopNames(result)) :
            p # q => TopNames(result)[p] # TopNames(result)[q]

====
